---- MODULE Spec2Model ----
(***************************************************************************)
(* Burp AI Bridge (src/burp_ai_bridge.py): the history store fed by the    *)
(* proxy-listener callback processProxyMessage, and the request handler    *)
(* that routes an HTTP request and serialises the store.                   *)
(*                                                                         *)
(* The extension runs under Jython: every capture callback and every       *)
(* RequestHandler is a real thread, there is no lock around self._history, *)
(* and only a single list operation (len, append, pop, indexing, one step  *)
(* of an iterator) is atomic.  Each such operation is one action here.     *)
(*                                                                         *)
(* SpecCapture runs the capture callbacks alone, on two threads.           *)
(* SpecSerial runs a request handler against callbacks that the framework  *)
(* delivers one at a time.  Spec runs both without that restriction.       *)
(* SpecServer runs the accept loop and the threads of two connections,     *)
(* from the bytes a client sends to the close of its socket;               *)
(* SpecOneConnFair does so for one connection at a time under fair         *)
(* scheduling; SpecStartup runs the accept loop next to the callbacks.     *)
(***************************************************************************)
EXTENDS Integers, Sequences, FiniteSets, TLC

(* ---------------------------------------------------------------- bounds *)

\* self._max_history (1000 in the source), scaled down.
MaxHistory == 2

\* Number of completed transactions the framework reports.
MaxCalls == 4

CapThreads == {"c1", "c2"}
Handlers == {"h1"}

\* What the framework reports of a transaction besides its bytes: the host of
\* its HTTP service and the method analyzeRequest finds in the request.
Transactions ==
    {[host |-> "a.test", method |-> "GET"], [host |-> "b.test", method |-> "POST"]}

HttpMethods == {"GET", "POST", "OPTIONS"}
PathNames == {"health", "history", "stats", "admin"}
\* The characters of the trailing path segment, and the digits among them.
Chars == {"-", "0", "1", "a"}
Digits == {"0", "1"}
MaxSegLen == 2

VARIABLES
    history,    \* self._history
    serial,     \* TRUE when the framework drives the callbacks one at a time
    nCalls,     \* transactions captured so far; also names a transaction's bytes
    cpc,        \* position of each capture callback
    cmsg,       \* the argument message of each capture callback
    centry,     \* the local variable entry of each capture callback
    log,        \* the appends in the order they happened
    hpc,        \* position of each request handler
    hreq,       \* method and path of the request being handled
    hidx,       \* local variable index of the handler
    hcalled,    \* the store methods the handler has called for this request
    hpos,       \* position of the iterator the handler is running
    hacc,       \* what the running iteration has produced so far
    hstats,     \* the parts of the get_stats result computed so far
    hresp,      \* status and response_body of the handler
    snaps,      \* the values self._history took during the request
    running,    \* self._running
    spc,        \* position of HttpServerRunnable.run
    stderr,     \* the kinds of message written to the error log
    afterStop,  \* connections accepted since self._running became false
    kpc,        \* position of the RequestHandler thread of each connection
    kconn,      \* state of each client socket
    kstream,    \* what the client of each connection sends
    kstall,     \* TRUE when that client then keeps its end open and silent
    kdata,      \* request_data of each RequestHandler
    kout        \* what each RequestHandler has written to its client

vars == <<history, serial, nCalls, cpc, cmsg, centry, log, hpc, hreq, hidx,
          hcalled, hpos, hacc, hstats, hresp, snaps, running, spc, stderr,
          afterStop, kpc, kconn, kstream, kstall, kdata, kout>>

capVars == <<nCalls, cpc, cmsg, centry, log>>
reqVars == <<hpc, hreq, hidx, hcalled, hpos, hacc, hstats, hresp>>
srvVars == <<running, spc, stderr, afterStop>>
connVars == <<kpc, kconn, kstream, kstall, kdata, kout>>

(* --------------------------------------------------------------- helpers *)

Range(s) == {s[i] : i \in 1..Len(s)}

RECURSIVE SumOver(_, _)
SumOver(f, S) ==
    IF S = {} THEN 0
    ELSE LET x == CHOOSE y \in S : TRUE IN f[x] + SumOver(f, S \ {x})

\* The last n elements of s (all of s when it is shorter).
LastN(s, n) == IF Len(s) <= n THEN s ELSE SubSeq(s, Len(s) - n + 1, Len(s))

(* ---------------------------------------------------------- capture path *)

EntryFields ==
    {"index", "host", "port", "protocol", "request", "response",
     "request_text", "response_length", "method", "url", "headers",
     "status_code", "response_headers"}

\* base64.b64encode(bytearray(b)).decode('utf-8') and helpers.bytesToString(b):
\* the bytes of transaction n are modelled by n, the encodings by a tag.
B64(bytes) == [b64 |-> bytes]
BytesToString(bytes) == [text |-> bytes]

NoEntry == [none |-> TRUE]
NoMsg == [bytes |-> 0, host |-> "", method |-> ""]

\* The message of transaction n.
Message(n, t) == [bytes |-> n, host |-> t.host, method |-> t.method]

\* The dict literal of lines 74-83: index is len(self._history) at this moment.
BaseEntry(h, msg) ==
    [index |-> Len(h), host |-> msg.host, port |-> 80, protocol |-> "http",
     request |-> B64(msg.bytes), response |-> B64(msg.bytes),
     request_text |-> BytesToString(msg.bytes), response_length |-> 1]

\* Lines 86-90 alone: the keys of lines 94-95 are never set.
AnalyzedEntryNoResponseInfo(e, msg) ==
    [index |-> e.index, host |-> e.host, port |-> e.port,
     protocol |-> e.protocol, request |-> e.request, response |-> e.response,
     request_text |-> e.request_text, response_length |-> e.response_length,
     method |-> msg.method, url |-> <<e.protocol, e.host>>,
     headers |-> <<msg.method>>]

\* Lines 86-95: the five keys set from analyzeRequest and analyzeResponse.
AnalyzedEntry(e, msg) ==
    [index |-> e.index, host |-> e.host, port |-> e.port,
     protocol |-> e.protocol, request |-> e.request, response |-> e.response,
     request_text |-> e.request_text, response_length |-> e.response_length,
     method |-> msg.method, url |-> <<e.protocol, e.host>>,
     headers |-> <<msg.method>>,
     status_code |-> 200, response_headers |-> <<"ok">>]

\* The test of line 100 with the limit off by one.
OverLimitLate(h) == Len(h) > MaxHistory + 1

\* Line 100: the test that decides the eviction.
OverLimit(h) == Len(h) > MaxHistory

\* list.pop() in the place of list.pop(0): the newest entry goes.
PopLast(h) == SubSeq(h, 1, Len(h) - 1)

\* Line 101: list.pop(0).
Pop0(h) == Tail(h)

\* Positions of a handler between its first and its last read of the store
\* for GET /history and GET /stats.
Reading == {"dump", "stats_total", "stats_hosts", "stats_mset", "stats_count"}

\* Every action that changes self._history records the new value for the
\* handlers that are reading the store.
Observe(h) ==
    snaps' = [x \in Handlers |->
                IF hpc[x] \in Reading THEN snaps[x] \cup {h} ELSE snaps[x]]

\* Lines 63-73: a callback that is a request-side notification, or that has
\* no request or no response, does nothing.
CaptureSkip(c) ==
    /\ cpc[c] = "idle"
    /\ {arg \in [messageIsRequest : BOOLEAN, request : BOOLEAN, response : BOOLEAN] :
            ~(~arg.messageIsRequest /\ arg.request /\ arg.response)} # {}
    /\ UNCHANGED <<history, serial, snaps>>
    /\ UNCHANGED capVars
    /\ UNCHANGED reqVars
    /\ UNCHANGED <<srvVars, connVars>>

\* Lines 63-83: a response-side notification with request and response
\* present builds the entry, reading len(self._history) for its index.
CaptureBegin(c) ==
    /\ cpc[c] = "idle"
    /\ nCalls < MaxCalls
    /\ serial => \A d \in CapThreads : cpc[d] = "idle"
    /\ \E t \in Transactions :
          LET msg == Message(nCalls + 1, t)
          IN /\ cmsg' = [cmsg EXCEPT ![c] = msg]
             /\ centry' = [centry EXCEPT ![c] = BaseEntry(history, msg)]
    /\ nCalls' = nCalls + 1
    /\ cpc' = [cpc EXCEPT ![c] = "analyze"]
    /\ UNCHANGED <<history, serial, log, snaps>>
    /\ UNCHANGED reqVars
    /\ UNCHANGED <<srvVars, connVars>>

\* Lines 86-95: analyzeRequest / analyzeResponse.  When one of them raises,
\* the exception leaves processProxyMessage before line 97.
CaptureAnalyze(c) ==
    /\ cpc[c] = "analyze"
    /\ \E ok \in BOOLEAN :
          IF ok
          THEN /\ centry' = [centry EXCEPT ![c] = AnalyzedEntry(centry[c], cmsg[c])]
               /\ cpc' = [cpc EXCEPT ![c] = "append"]
               /\ UNCHANGED cmsg
          ELSE /\ centry' = [centry EXCEPT ![c] = NoEntry]
               /\ cmsg' = [cmsg EXCEPT ![c] = NoMsg]
               /\ cpc' = [cpc EXCEPT ![c] = "idle"]
    /\ UNCHANGED <<history, serial, nCalls, log, snaps>>
    /\ UNCHANGED reqVars
    /\ UNCHANGED <<srvVars, connVars>>

\* Line 97: self._history.append(entry).
CaptureAppend(c) ==
    /\ cpc[c] = "append"
    /\ history' = Append(history, centry[c])
    /\ log' = Append(log, [request |-> centry[c].request,
                            index |-> centry[c].index, len |-> Len(history)])
    /\ cpc' = [cpc EXCEPT ![c] = "check"]
    /\ Observe(history')
    /\ UNCHANGED <<serial, nCalls, cmsg, centry>>
    /\ UNCHANGED reqVars
    /\ UNCHANGED <<srvVars, connVars>>

\* Line 100: if len(self._history) > self._max_history.
CaptureCheck(c) ==
    /\ cpc[c] = "check"
    /\ IF OverLimit(history)
       THEN /\ cpc' = [cpc EXCEPT ![c] = "evict"]
            /\ UNCHANGED <<cmsg, centry>>
       ELSE /\ cpc' = [cpc EXCEPT ![c] = "idle"]
            /\ cmsg' = [cmsg EXCEPT ![c] = NoMsg]
            /\ centry' = [centry EXCEPT ![c] = NoEntry]
    /\ UNCHANGED <<history, serial, nCalls, log, snaps>>
    /\ UNCHANGED reqVars
    /\ UNCHANGED <<srvVars, connVars>>

\* Line 101: self._history.pop(0); on an empty list it raises IndexError and
\* the list is left as it is.
CaptureEvict(c) ==
    /\ cpc[c] = "evict"
    /\ history' = IF history = <<>> THEN history ELSE Pop0(history)
    /\ cpc' = [cpc EXCEPT ![c] = "idle"]
    /\ cmsg' = [cmsg EXCEPT ![c] = NoMsg]
    /\ centry' = [centry EXCEPT ![c] = NoEntry]
    /\ Observe(history')
    /\ UNCHANGED <<serial, nCalls, log>>
    /\ UNCHANGED reqVars
    /\ UNCHANGED <<srvVars, connVars>>

(* ---------------------------------------------------------- read access *)

\* get_history, lines 103-105: the list itself, not a copy.
get_history(h) == h

\* get_history_item, lines 107-111, on a store that does not change during
\* the call: the item as a sequence of length one, None as the empty sequence.
get_history_item(h, index) ==
    IF 0 <= index /\ index < Len(h) THEN <<h[index + 1]>> ELSE <<>>

\* get_stats, lines 113-122, on a store that does not change during the call.
get_stats(h) ==
    [total |-> Len(h),
     hosts |-> {h[i].host : i \in 1..Len(h)},
     methods |-> [m \in {h[i].method : i \in 1..Len(h)} |->
                    Cardinality({i \in 1..Len(h) : h[i].method = m})]]

(* ------------------------------------------------------- request handler *)

Segments == UNION {[1..n -> Chars] : n \in 0..MaxSegLen}

\* A path "/" name, or "/" name "/" seg when slash holds.
Path(n, slash, s) == [name |-> n, slash |-> slash, seg |-> s]

Paths ==
    {Path(n, FALSE, <<>>) : n \in PathNames}
    \cup {Path(n, TRUE, <<>>) : n \in {"health", "stats"}}
    \cup {Path("history", TRUE, s) : s \in Segments}

Request(m, p) == [method |-> m, path |-> p]

\* The request lines clients send: GET with every path, the other methods
\* with the path of every branch of the router.
AllRequests ==
    {Request("GET", p) : p \in Paths}
    \cup {Request(m, Path(n, FALSE, <<>>)) : m \in HttpMethods, n \in PathNames}
    \cup {Request(m, Path("history", TRUE, s)) :
             m \in HttpMethods, s \in {<<"1">>, <<"a">>}}

DigitVal(ch) == IF ch = "1" THEN 1 ELSE 0

RECURSIVE DecVal(_)
DecVal(s) ==
    IF s = <<>> THEN 0
    ELSE DecVal(SubSeq(s, 1, Len(s) - 1)) * 10 + DigitVal(s[Len(s)])

\* A parse that accepts digits only, as str.isdigit would.
PyIntDigitsOnly(s) ==
    LET ok == s # <<>> /\ \A i \in 1..Len(s) : s[i] \in Digits
    IN [ok |-> ok, val |-> IF ok THEN DecVal(s) ELSE 0]

\* int(text), line 202: an optional sign followed by at least one digit;
\* anything else raises ValueError (ok = FALSE).
PyInt(s) ==
    LET signed == s # <<>> /\ s[1] = "-"
        body == IF signed THEN Tail(s) ELSE s
        ok == body # <<>> /\ \A i \in 1..Len(body) : body[i] \in Digits
    IN [ok |-> ok,
        val |-> IF ~ok THEN 0 ELSE IF signed THEN 0 - DecVal(body) ELSE DecVal(body)]

NoStats == [total |-> 0, hosts |-> {}, methods |-> <<>>]
NoWork == [total |-> 0, hosts |-> {}, todo |-> {}, methods |-> <<>>]
NoReq == Request("", Path("", FALSE, <<>>))

\* status and response_body of lines 183-219.
Resp(status, kind, error, items, stats) ==
    [status |-> status, kind |-> kind, error |-> error, items |-> items,
     stats |-> stats]
NoResp == Resp(0, "none", "", <<>>, NoStats)

RespEmpty == Resp(200, "empty", "", <<>>, NoStats)
RespHealth == Resp(200, "health", "", <<>>, NoStats)
RespHistory(items) == Resp(200, "history", "", items, NoStats)
RespItem(item) == Resp(200, "item", "", <<item>>, NoStats)
RespStats(st) == Resp(200, "stats", "", <<>>, st)
RespItemNotFound == Resp(404, "error", "Item not found", <<>>, NoStats)
RespInvalidIndex == Resp(400, "error", "Invalid index", <<>>, NoStats)
RespEndpointNotFound == Resp(404, "error", "Endpoint not found", <<>>, NoStats)

\* A chain that serves the four paths to GET only.
RouteGetOnly(method, path) ==
    IF method = "OPTIONS" THEN "options"
    ELSE IF method # "GET" THEN "other"
    ELSE IF path.name = "health" /\ ~path.slash THEN "health"
    ELSE IF path.name = "history" /\ ~path.slash THEN "history"
    ELSE IF path.name = "history" /\ path.slash THEN "item"
    ELSE IF path.name = "stats" /\ ~path.slash THEN "stats"
    ELSE "other"

\* The branch of the if/elif chain of lines 189-219 that a request takes.
Route(method, path) ==
    IF method = "OPTIONS" THEN "options"
    ELSE IF path.name = "health" /\ ~path.slash THEN "health"
    ELSE IF path.name = "history" /\ ~path.slash THEN "history"
    ELSE IF path.name = "history" /\ path.slash THEN "item"
    ELSE IF path.name = "stats" /\ ~path.slash THEN "stats"
    ELSE "other"

\* Lines 156-219 up to the first access to the store: the request line is
\* read and split into method and path, and the if/elif chain is entered.
HandlerRoute(h) ==
    /\ hpc[h] = "idle"
    /\ \E req \in AllRequests :
          LET r == Route(req.method, req.path)
              n == PyInt(req.path.seg)
              parsed == r = "item" /\ n.ok
          IN /\ hreq' = [hreq EXCEPT ![h] = req]
             /\ hresp' = [hresp EXCEPT ![h] =
                   CASE r = "options" -> RespEmpty
                     [] r = "health" -> RespHealth
                     [] r = "item" /\ ~n.ok -> RespInvalidIndex
                     [] r = "other" -> RespEndpointNotFound
                     [] OTHER -> NoResp]
             /\ hpc' = [hpc EXCEPT ![h] =
                   CASE r = "history" -> "dump"
                     [] r = "stats" -> "stats_total"
                     [] parsed -> "item_check"
                     [] OTHER -> "send"]
             /\ hidx' = [hidx EXCEPT ![h] = IF parsed THEN n.val ELSE 0]
             /\ hcalled' = [hcalled EXCEPT ![h] =
                   CASE r = "history" -> {"get_history"}
                     [] r = "stats" -> {"get_stats"}
                     [] parsed -> {"get_history_item"}
                     [] OTHER -> {}]
             /\ snaps' = [snaps EXCEPT ![h] =
                   IF r \in {"history", "stats"} THEN {history} ELSE {}]
    /\ UNCHANGED <<history, serial, hpos, hacc, hstats>>
    /\ UNCHANGED capVars
    /\ UNCHANGED <<srvVars, connVars>>

\* Line 199: json.dumps iterates over the list get_history returned, one
\* element per step; the iterator stops when its position reaches the length.
HandlerDump(h) ==
    /\ hpc[h] = "dump"
    /\ LET lst == get_history(history)
       IN IF hpos[h] < Len(lst)
          THEN /\ hacc' = [hacc EXCEPT ![h] = Append(@, lst[hpos[h] + 1])]
               /\ hpos' = [hpos EXCEPT ![h] = @ + 1]
               /\ UNCHANGED <<hpc, hresp>>
          ELSE /\ hresp' = [hresp EXCEPT ![h] = RespHistory(hacc[h])]
               /\ hpc' = [hpc EXCEPT ![h] = "send"]
               /\ hacc' = [hacc EXCEPT ![h] = <<>>]
               /\ hpos' = [hpos EXCEPT ![h] = 0]
    /\ UNCHANGED <<history, serial, hreq, hidx, hcalled, hstats, snaps>>
    /\ UNCHANGED capVars
    /\ UNCHANGED <<srvVars, connVars>>

\* Line 109: 0 <= index < len(self._history); line 111 and lines 206-208
\* when it is false.
HandlerItemCheck(h) ==
    /\ hpc[h] = "item_check"
    /\ IF 0 <= hidx[h] /\ hidx[h] < Len(history)
       THEN /\ hpc' = [hpc EXCEPT ![h] = "item_read"]
            /\ UNCHANGED hresp
       ELSE /\ hresp' = [hresp EXCEPT ![h] = RespItemNotFound]
            /\ hpc' = [hpc EXCEPT ![h] = "send"]
    /\ UNCHANGED <<history, serial, hreq, hidx, hcalled, hpos, hacc, hstats, snaps>>
    /\ UNCHANGED capVars
    /\ UNCHANGED <<srvVars, connVars>>

\* self._history.pop(index) in the place of self._history[index].
HandlerItemPop(h) ==
    /\ hpc[h] = "item_read"
    /\ IF hidx[h] < Len(history)
       THEN /\ hresp' = [hresp EXCEPT ![h] = RespItem(history[hidx[h] + 1])]
            /\ history' = SubSeq(history, 1, hidx[h])
                              \o SubSeq(history, hidx[h] + 2, Len(history))
       ELSE /\ hresp' = [hresp EXCEPT ![h] = RespInvalidIndex]
            /\ UNCHANGED history
    /\ hpc' = [hpc EXCEPT ![h] = "send"]
    /\ UNCHANGED <<serial, hreq, hidx, hcalled, hpos, hacc, hstats, snaps>>
    /\ UNCHANGED capVars
    /\ UNCHANGED <<srvVars, connVars>>

\* Line 110: self._history[index], and lines 204-205.  When the list has
\* shrunk since line 109 the subscript raises IndexError, which the bare
\* except of line 209 answers with 400.
HandlerItemRead(h) ==
    /\ hpc[h] = "item_read"
    /\ IF hidx[h] < Len(history)
       THEN hresp' = [hresp EXCEPT ![h] = RespItem(history[hidx[h] + 1])]
       ELSE hresp' = [hresp EXCEPT ![h] = RespInvalidIndex]
    /\ hpc' = [hpc EXCEPT ![h] = "send"]
    /\ UNCHANGED <<history, serial, hreq, hidx, hcalled, hpos, hacc, hstats, snaps>>
    /\ UNCHANGED capVars
    /\ UNCHANGED <<srvVars, connVars>>

\* get_stats evaluates its dict display left to right.  Each comprehension
\* over self._history is taken as one step; the store can change between two
\* of them.
\* Line 118: "total_requests": len(self._history).
StatsTotal(h) ==
    /\ hpc[h] = "stats_total"
    /\ hstats' = [hstats EXCEPT ![h] = [NoWork EXCEPT !.total = Len(history)]]
    /\ hpc' = [hpc EXCEPT ![h] = "stats_hosts"]
    /\ UNCHANGED <<history, serial, hreq, hidx, hcalled, hpos, hacc, hresp, snaps>>
    /\ UNCHANGED capVars
    /\ UNCHANGED <<srvVars, connVars>>

\* Line 119: list(set([h["host"] for h in self._history])).
StatsHosts(h) ==
    /\ hpc[h] = "stats_hosts"
    /\ hstats' = [hstats EXCEPT ![h].hosts = {history[i].host : i \in 1..Len(history)}]
    /\ hpc' = [hpc EXCEPT ![h] = "stats_mset"]
    /\ UNCHANGED <<history, serial, hreq, hidx, hcalled, hpos, hacc, hresp, snaps>>
    /\ UNCHANGED capVars
    /\ UNCHANGED <<srvVars, connVars>>

\* Line 121: set([h["method"] for h in self._history]), the iterable of the
\* dict comprehension.
StatsMethodSet(h) ==
    /\ hpc[h] = "stats_mset"
    /\ hstats' = [hstats EXCEPT ![h].todo = {history[i].method : i \in 1..Len(history)}]
    /\ hpc' = [hpc EXCEPT ![h] = "stats_count"]
    /\ UNCHANGED <<history, serial, hreq, hidx, hcalled, hpos, hacc, hresp, snaps>>
    /\ UNCHANGED capVars
    /\ UNCHANGED <<srvVars, connVars>>

\* Line 120: for the next method m of the set (the set's iteration order is
\* a function of its contents), sum(1 for h in self._history if
\* h["method"] == m); line 213 once the set is exhausted.
StatsCount(h) ==
    /\ hpc[h] = "stats_count"
    /\ IF hstats[h].todo # {}
       THEN LET m == CHOOSE x \in hstats[h].todo : TRUE
                n == Cardinality({i \in 1..Len(history) : history[i].method = m})
            IN /\ hstats' = [hstats EXCEPT ![h].todo = @ \ {m},
                                           ![h].methods = (m :> n) @@ @]
               /\ UNCHANGED <<hpc, hresp>>
       ELSE /\ hresp' = [hresp EXCEPT ![h] =
                            RespStats([total |-> hstats[h].total,
                                       hosts |-> hstats[h].hosts,
                                       methods |-> hstats[h].methods])]
            /\ hpc' = [hpc EXCEPT ![h] = "send"]
            /\ hstats' = [hstats EXCEPT ![h] = NoWork]
    /\ UNCHANGED <<history, serial, hreq, hidx, hcalled, hpos, hacc, snaps>>
    /\ UNCHANGED capVars
    /\ UNCHANGED <<srvVars, connVars>>

\* Lines 221-229: the response is written and the connection closed.
HandlerSend(h) ==
    /\ hpc[h] = "send"
    /\ hpc' = [hpc EXCEPT ![h] = "idle"]
    /\ hreq' = [hreq EXCEPT ![h] = NoReq]
    /\ hresp' = [hresp EXCEPT ![h] = NoResp]
    /\ hidx' = [hidx EXCEPT ![h] = 0]
    /\ hcalled' = [hcalled EXCEPT ![h] = {}]
    /\ snaps' = [snaps EXCEPT ![h] = {}]
    /\ UNCHANGED <<history, serial, hpos, hacc, hstats>>
    /\ UNCHANGED capVars
    /\ UNCHANGED <<srvVars, connVars>>

(* ------------------------------------------------- acceptor and connections *)

\* The handler threads that can be alive at the same time.
Conns == {"k1", "k2"}

\* What a client sends.  "CR", "LF" and "SP" are the bytes 13, 10 and 32; any
\* other element stands for a run of bytes that holds none of these three.
Streams ==
    {<<"GET", "SP", "/health", "CR", "LF", "CR", "LF">>,
     <<"GET", "SP", "/health", "CR", "LF">>,
     <<"GET", "CR", "LF", "CR", "LF">>,
     <<>>,
     <<"GET", "SP", "/health", "CR", "LF", "CR", "LF", "GET">>}

CRLFCRLF == <<"CR", "LF", "CR", "LF">>

\* request_data[:4] in the place of request_data[-4:].
HeaderCompleteAtStart(data) == Len(data) >= 4 /\ SubSeq(data, 1, 4) = CRLFCRLF

\* Lines 167-170: the last four bytes read are CR LF CR LF.
HeaderComplete(data) ==
    Len(data) >= 4 /\ SubSeq(data, Len(data) - 3, Len(data)) = CRLFCRLF

\* Line 175, lines[0] of request.split('\r\n'): what precedes the first CR LF,
\* the whole text when there is none.
FirstLine(data) ==
    LET at == {i \in 1..(Len(data) - 1) : data[i] = "CR" /\ data[i + 1] = "LF"}
    IN IF at = {} THEN data
       ELSE SubSeq(data, 1, (CHOOSE i \in at : \A j \in at : i <= j) - 1)

\* Line 177, str.split(' '): the pieces between the spaces, empty ones kept.
RECURSIVE SplitSpace(_)
SplitSpace(line) ==
    LET at == {i \in 1..Len(line) : line[i] = "SP"}
    IN IF at = {} THEN <<line>>
       ELSE LET i == CHOOSE x \in at : \A y \in at : x <= y
            IN <<SubSeq(line, 1, i - 1)>> \o SplitSpace(SubSeq(line, i + 1, Len(line)))

\* A loop that is entered whether or not the listener was bound.
BindIgnored(ok) == "check"

\* Lines 132-134 and 143-144: where run() goes after the ServerSocket
\* constructor returned (ok) or raised.
Bind(ok) == IF ok THEN "check" ELSE "failed"

\* while True in the place of while self._extender._running.
LoopTestAlways(flag) == "accept"

\* Line 136: the test of the while loop.
LoopTest(flag) == IF flag THEN "accept" ELSE "done"

\* Line 133, and line 144 when the listener cannot be bound.
ServerStart ==
    /\ spc = "start"
    /\ \E ok \in BOOLEAN :
          /\ spc' = Bind(ok)
          /\ stderr' = IF ok THEN stderr ELSE stderr \cup {"Failed to start server"}
    /\ UNCHANGED <<running, afterStop>>
    /\ UNCHANGED connVars
    /\ UNCHANGED <<history, serial, snaps>>
    /\ UNCHANGED capVars
    /\ UNCHANGED reqVars

\* Line 136: while self._extender._running.
AcceptorCheck ==
    /\ spc = "check"
    /\ spc' = LoopTest(running)
    /\ UNCHANGED <<running, stderr, afterStop>>
    /\ UNCHANGED connVars
    /\ UNCHANGED <<history, serial, snaps>>
    /\ UNCHANGED capVars
    /\ UNCHANGED reqVars

\* Lines 138-140: accept() returns a client and a RequestHandler thread is
\* started for it.  A thread that has ended leaves its place to the new one.
Accept(k) ==
    /\ spc = "accept"
    /\ kpc[k] \in {"free", "done", "failed"}
    /\ \E st \in Streams, stall \in BOOLEAN :
          /\ kstream' = [kstream EXCEPT ![k] = st]
          /\ kstall' = [kstall EXCEPT ![k] = stall]
    /\ kpc' = [kpc EXCEPT ![k] = "read"]
    /\ kconn' = [kconn EXCEPT ![k] = "open"]
    /\ kdata' = [kdata EXCEPT ![k] = <<>>]
    /\ kout' = [kout EXCEPT ![k] = "none"]
    /\ spc' = "check"
    /\ afterStop' = IF running THEN afterStop
                    ELSE IF afterStop < 2 THEN afterStop + 1 ELSE afterStop
    /\ UNCHANGED <<running, stderr>>
    /\ UNCHANGED <<history, serial, snaps>>
    /\ UNCHANGED capVars
    /\ UNCHANGED reqVars

\* An except clause placed around the loop instead of inside it.
AcceptErrorFatal ==
    /\ spc = "accept"
    /\ stderr' = stderr \cup {"Server error"}
    /\ spc' = "done"
    /\ UNCHANGED <<running, afterStop>>
    /\ UNCHANGED connVars
    /\ UNCHANGED <<history, serial, snaps>>
    /\ UNCHANGED capVars
    /\ UNCHANGED reqVars

\* Lines 141-142: accept() raises; the error is logged and the loop goes on.
AcceptError ==
    /\ spc = "accept"
    /\ stderr' = stderr \cup {"Server error"}
    /\ spc' = "check"
    /\ UNCHANGED <<running, afterStop>>
    /\ UNCHANGED connVars
    /\ UNCHANGED <<history, serial, snaps>>
    /\ UNCHANGED capVars
    /\ UNCHANGED reqVars

\* The attribute _running of line 46 is assigned False.  No code of the
\* extension does this; the attribute is open to the host that owns the
\* BurpExtender object.
ClearRunning ==
    /\ running
    /\ running' = FALSE
    /\ UNCHANGED <<spc, stderr, afterStop>>
    /\ UNCHANGED connVars
    /\ UNCHANGED <<history, serial, snaps>>
    /\ UNCHANGED capVars
    /\ UNCHANGED reqVars

\* Lines 161-170, one turn of the loop: read() returns the next byte, or -1
\* when the client has closed its end; it blocks while the client is silent.
HandlerRead(k) ==
    /\ kpc[k] = "read"
    /\ IF Len(kdata[k]) < Len(kstream[k])
       THEN LET data == Append(kdata[k], kstream[k][Len(kdata[k]) + 1])
            IN /\ kdata' = [kdata EXCEPT ![k] = data]
               /\ kpc' = [kpc EXCEPT ![k] =
                             IF HeaderComplete(data) THEN "parse" ELSE "read"]
       ELSE /\ ~kstall[k]
            /\ kpc' = [kpc EXCEPT ![k] = "parse"]
            /\ UNCHANGED kdata
    /\ UNCHANGED <<kconn, kstream, kstall, kout>>
    /\ UNCHANGED srvVars
    /\ UNCHANGED <<history, serial, snaps>>
    /\ UNCHANGED capVars
    /\ UNCHANGED reqVars

\* Lines 172-180: the request line is split; with fewer than two parts
\* nothing is routed and line 229 comes next.
HandlerParse(k) ==
    /\ kpc[k] = "parse"
    /\ kpc' = [kpc EXCEPT ![k] =
                  IF Len(SplitSpace(FirstLine(kdata[k]))) >= 2 THEN "write"
                  ELSE "close"]
    /\ UNCHANGED <<kconn, kstream, kstall, kdata, kout>>
    /\ UNCHANGED srvVars
    /\ UNCHANGED <<history, serial, snaps>>
    /\ UNCHANGED capVars
    /\ UNCHANGED reqVars

\* Lines 182-227: the request is routed and the response written.
HandlerWrite(k) ==
    /\ kpc[k] = "write"
    /\ kout' = [kout EXCEPT ![k] = "response"]
    /\ kpc' = [kpc EXCEPT ![k] = "close"]
    /\ UNCHANGED <<kconn, kstream, kstall, kdata>>
    /\ UNCHANGED srvVars
    /\ UNCHANGED <<history, serial, snaps>>
    /\ UNCHANGED capVars
    /\ UNCHANGED reqVars

\* Line 229: self._client.close(), taken to succeed; run() returns and its
\* locals are gone.
HandlerClose(k) ==
    /\ kpc[k] = "close"
    /\ kconn' = [kconn EXCEPT ![k] = "closed"]
    /\ kpc' = [kpc EXCEPT ![k] = "done"]
    /\ kstream' = [kstream EXCEPT ![k] = <<>>]
    /\ kstall' = [kstall EXCEPT ![k] = FALSE]
    /\ kdata' = [kdata EXCEPT ![k] = <<>>]
    /\ UNCHANGED kout
    /\ UNCHANGED srvVars
    /\ UNCHANGED <<history, serial, snaps>>
    /\ UNCHANGED capVars
    /\ UNCHANGED reqVars

\* Lines 230-235: getInputStream() or read() raises, or the routing or the
\* write of lines 182-227 does (the peer reset the connection); the error is
\* logged and the socket closed.  A failed write may have sent part of the
\* response.
HandlerFail(k) ==
    /\ kpc[k] \in {"read", "write"}
    /\ stderr' = stderr \cup {"Request handler error"}
    /\ kconn' = [kconn EXCEPT ![k] = "closed"]
    /\ \E sent \in {"none", "partial"} :
          /\ sent = "partial" => kpc[k] = "write"
          /\ kout' = [kout EXCEPT ![k] = sent]
    /\ kpc' = [kpc EXCEPT ![k] = "failed"]
    /\ kstream' = [kstream EXCEPT ![k] = <<>>]
    /\ kstall' = [kstall EXCEPT ![k] = FALSE]
    /\ kdata' = [kdata EXCEPT ![k] = <<>>]
    /\ UNCHANGED <<running, spc, afterStop>>
    /\ UNCHANGED <<history, serial, snaps>>
    /\ UNCHANGED capVars
    /\ UNCHANGED reqVars

(* -------------------------------------------------------- specifications *)

\* registerExtenderCallbacks, lines 40-42: the store starts empty.
InitStore ==
    /\ history = <<>>
    /\ nCalls = 0
    /\ cpc = [c \in CapThreads |-> "idle"]
    /\ cmsg = [c \in CapThreads |-> NoMsg]
    /\ centry = [c \in CapThreads |-> NoEntry]
    /\ log = <<>>
    /\ hpc = [h \in Handlers |-> "idle"]
    /\ hreq = [h \in Handlers |-> NoReq]
    /\ hidx = [h \in Handlers |-> 0]
    /\ hcalled = [h \in Handlers |-> {}]
    /\ hpos = [h \in Handlers |-> 0]
    /\ hacc = [h \in Handlers |-> <<>>]
    /\ hstats = [h \in Handlers |-> NoWork]
    /\ hresp = [h \in Handlers |-> NoResp]
    /\ snaps = [h \in Handlers |-> {}]

\* registerExtenderCallbacks, lines 44-49: the flag is set and the server
\* thread started; no connection exists yet.
InitServer ==
    /\ running = TRUE
    /\ spc = "start"
    /\ stderr = {}
    /\ afterStop = 0
    /\ kpc = [k \in Conns |-> "free"]
    /\ kconn = [k \in Conns |-> "none"]
    /\ kstream = [k \in Conns |-> <<>>]
    /\ kstall = [k \in Conns |-> FALSE]
    /\ kdata = [k \in Conns |-> <<>>]
    /\ kout = [k \in Conns |-> "none"]

Init == InitStore /\ InitServer /\ serial = FALSE

InitSerial == InitStore /\ InitServer /\ serial = TRUE

\* The steps of the capture callbacks.
NextCapture ==
    \/ \E c \in CapThreads : CaptureSkip(c)
    \/ \E c \in CapThreads : CaptureBegin(c)
    \/ \E c \in CapThreads : CaptureAnalyze(c)
    \/ \E c \in CapThreads : CaptureAppend(c)
    \/ \E c \in CapThreads : CaptureCheck(c)
    \/ \E c \in CapThreads : CaptureEvict(c)

\* The steps of the request handlers.
NextHandler ==
    \/ \E h \in Handlers : HandlerRoute(h)
    \/ \E h \in Handlers : HandlerDump(h)
    \/ \E h \in Handlers : HandlerItemCheck(h)
    \/ \E h \in Handlers : HandlerItemRead(h)
    \/ \E h \in Handlers : StatsTotal(h)
    \/ \E h \in Handlers : StatsHosts(h)
    \/ \E h \in Handlers : StatsMethodSet(h)
    \/ \E h \in Handlers : StatsCount(h)
    \/ \E h \in Handlers : HandlerSend(h)

Next == NextCapture \/ NextHandler

\* Capture callbacks on threads of their own and a request handler.
Spec == Init /\ [][Next]_vars

\* The capture callbacks alone, on threads of their own.
SpecCapture == Init /\ [][NextCapture]_vars

\* The framework delivers the callbacks one after another, while a request
\* handler runs on its own thread.
SpecSerial == InitSerial /\ [][Next]_vars

\* The steps of the server thread, which hands connections to the threads of S.
NextAcceptor(S) ==
    \/ ServerStart
    \/ AcceptorCheck
    \/ \E k \in S : Accept(k)
    \/ AcceptError

\* The steps of the RequestHandler threads of S.
NextConn(S) ==
    \/ \E k \in S : HandlerRead(k)
    \/ \E k \in S : HandlerParse(k)
    \/ \E k \in S : HandlerWrite(k)
    \/ \E k \in S : HandlerClose(k)
    \/ \E k \in S : HandlerFail(k)

NextServer == NextAcceptor(Conns) \/ NextConn(Conns) \/ ClearRunning

\* The server thread and the threads of its connections, under a host that
\* may clear the running flag.
SpecServer == InitSerial /\ [][NextServer]_vars

\* Every RequestHandler is a thread of its own that the JVM keeps scheduling;
\* nothing obliges a client to connect or an I/O call to fail.
FairConn ==
    \A k \in Conns :
        /\ WF_vars(HandlerRead(k))
        /\ WF_vars(HandlerParse(k))
        /\ WF_vars(HandlerWrite(k))
        /\ WF_vars(HandlerClose(k))

\* The server thread with connections that come one after another.
NextOneConn == NextAcceptor({"k1"}) \/ NextConn({"k1"}) \/ ClearRunning

SpecOneConnFair == InitSerial /\ [][NextOneConn]_vars /\ FairConn

\* The steps of the capture callbacks when the framework has one thread for
\* them.
NextCaptureOn(c) ==
    \/ CaptureSkip(c)
    \/ CaptureBegin(c)
    \/ CaptureAnalyze(c)
    \/ CaptureAppend(c)
    \/ CaptureCheck(c)
    \/ CaptureEvict(c)

NextStartup == NextAcceptor({"k1"}) \/ NextConn({"k1"}) \/ NextCaptureOn("c1")

\* The extension as it starts: the server thread, one connection at a time,
\* and the capture callbacks delivered one after another on one thread.
SpecStartup == InitSerial /\ [][NextStartup]_vars

(* ----------------------------------------------------------------- claims *)

\* No capture callback is between its append (line 97) and the end of its
\* eviction (lines 100-101).
NoAppendInProgress == \A c \in CapThreads : cpc[c] \notin {"check", "evict"}

CapturesIdle == \A c \in CapThreads : cpc[c] = "idle"

\* C1: whenever no capture callback is in the middle of its append, the store
\* holds at most MaxHistory entries, also when callbacks run concurrently.
C1_BoundedStore == NoAppendInProgress => Len(history) <= MaxHistory

\* C1 witness: more appends than MaxHistory have completed, two of them
\* interleaved (one recorded a length that was no longer the store's), and
\* the store is full.
C1_Witness ==
    /\ CapturesIdle
    /\ Len(log) > MaxHistory
    /\ \E k \in 1..Len(log) : log[k].index # log[k].len
    /\ Len(history) = MaxHistory

\* C2: after more than MaxHistory qualifying callbacks executed one after
\* another, get_history returns exactly MaxHistory entries, the last
\* MaxHistory appended, oldest first.
C2_FifoEviction ==
    (CapturesIdle /\ Len(log) > MaxHistory) =>
        LET got == get_history(history)
            last == LastN(log, MaxHistory)
        IN /\ Len(got) = MaxHistory
           /\ \A k \in 1..MaxHistory :
                 /\ got[k].request = last[k].request
                 /\ got[k].index = last[k].index

\* C2 witness: two evictions have happened.
C2_Witness ==
    /\ serial
    /\ CapturesIdle
    /\ Len(log) = MaxHistory + 2
    /\ Len(history) = MaxHistory

\* The index values a client may ask for.
IndexInputs == (0 - 1)..(MaxHistory + 1)

\* C3: get_history_item(i) returns the retained entry whose index field is
\* i, and None exactly when no retained entry has that index.
C3_LookupByIndexField ==
    \A i \in IndexInputs :
        LET r == get_history_item(history, i)
        IN /\ r # <<>> => r[1].index = i
           /\ r = <<>> <=> ~\E k \in 1..Len(history) : history[k].index = i

\* C4: the index stored in every appended entry is the length the store had
\* at the moment the entry was added to the tail.
C4_IndexIsLengthAtAppend ==
    \A k \in 1..Len(log) : log[k].index = log[k].len

\* C5: of two entries appended one after the other, the later one has the
\* greater index, for any number of appends.
C5_IndexIncreasing ==
    \A j, k \in 1..Len(log) : j < k => log[j].index < log[k].index

Answered(h, kind) == hpc[h] = "send" /\ hresp[h].kind = kind

\* C6: what GET /history serialises is the store as it was at one moment of
\* the request.
C6_SnapshotOfOneMoment ==
    \A h \in Handlers : Answered(h, "history") => hresp[h].items \in snaps[h]

\* C7: a get_stats result describes one snapshot: total_requests is its
\* length, the method counts sum to total_requests, hosts is its set of
\* hosts.
C7_StatsConsistent ==
    \A h \in Handlers :
        Answered(h, "stats") =>
            LET st == hresp[h].stats
            IN \E s \in snaps[h] :
                  /\ st.total = Len(s)
                  /\ SumOver(st.methods, DOMAIN st.methods) = st.total
                  /\ st.hosts = {s[i].host : i \in 1..Len(s)}

\* Every entry in the store, and every entry a handler has read or is about
\* to send, has all thirteen keys.
C8_Complete ==
    /\ \A k \in 1..Len(history) : DOMAIN history[k] = EntryFields
    /\ \A h \in Handlers :
          \A e \in Range(hacc[h]) \cup Range(hresp[h].items) :
              DOMAIN e = EntryFields

\* An entry that stays in the store stays as it is.
C8_Frozen ==
    \A j \in 1..Len(history), k \in 1..Len(history') :
        history[j].request = history'[k].request => history[j] = history'[k]

\* C8: no reader observes a partially built entry: every entry in the store
\* carries all of its fields, and no field of a retained entry changes.
C8_NoPartialEntry == []C8_Complete /\ [][C8_Frozen]_vars

\* C8 witness: a handler is about to send entries it read from the store
\* while a callback holds an entry that is only partly built.
C8_Witness ==
    /\ \E h \in Handlers : Answered(h, "history") /\ hresp[h].items # <<>>
    /\ \E c \in CapThreads : cpc[c] = "analyze" /\ DOMAIN centry[c] # EntryFields
    /\ history # <<>>

DecimalDigits == {"0", "1", "2", "3", "4", "5", "6", "7", "8", "9"}
AllDigits(s) == s # <<>> /\ \A i \in 1..Len(s) : s[i] \in DecimalDigits
AllZeros(s) == s # <<>> /\ \A i \in 1..Len(s) : s[i] = "0"

\* The segment spells an integer: digits, or a minus sign and digits.
SegIsInt(s) == AllDigits(s) \/ (s # <<>> /\ s[1] = "-" /\ AllDigits(Tail(s)))
\* The segment spells an integer below zero.
SegIsNegative(s) == SegIsInt(s) /\ s[1] = "-" /\ ~AllZeros(Tail(s))

\* A GET whose path starts with /history/ has its answer ready.
ItemAnswered(h) ==
    /\ hpc[h] = "send"
    /\ hreq[h].method = "GET"
    /\ hreq[h].path.name = "history"
    /\ hreq[h].path.slash

\* C9 as stated: a trailing segment that is no non-negative integer is
\* answered 400 'Invalid index' without consulting the store, and 404 'Item
\* not found' is only given for a non-negative integer.
C9_NonNegativeOr400 ==
    \A h \in Handlers :
        ItemAnswered(h) =>
            LET seg == hreq[h].path.seg
                nonneg == SegIsInt(seg) /\ ~SegIsNegative(seg)
            IN /\ ~nonneg => (hresp[h] = RespInvalidIndex /\ hcalled[h] = {})
               /\ hresp[h] = RespItemNotFound => nonneg

\* C9 amended: a trailing segment that is no integer is answered 400
\* 'Invalid index' without consulting the store; a negative integer is looked
\* up and answered 404 'Item not found'; 404 'Item not found' is only given
\* for an integer.
C9_IntegerOr400 ==
    \A h \in Handlers :
        ItemAnswered(h) =>
            LET seg == hreq[h].path.seg
            IN /\ ~SegIsInt(seg) => (hresp[h] = RespInvalidIndex /\ hcalled[h] = {})
               /\ hresp[h] = RespItemNotFound => SegIsInt(seg)
               /\ SegIsNegative(seg) =>
                     (hresp[h] = RespItemNotFound
                      /\ hcalled[h] = {"get_history_item"})

\* C9 witness: GET /history/-1 is about to be answered 404 'Item not found'.
C9_Witness ==
    \E h \in Handlers :
        /\ ItemAnswered(h)
        /\ hreq[h].path.seg = <<"-", "1">>
        /\ hresp[h] = RespItemNotFound

IsPath(p, name) == p.name = name /\ ~p.slash

\* C10 as stated: the four handlers answer GET only, OPTIONS gets 200 with an
\* empty body, and every other (method, path) gets 404 'Endpoint not found'.
C10_RoutesByMethodAndPath ==
    \A h \in Handlers :
        hpc[h] = "send" =>
            LET m == hreq[h].method
                p == hreq[h].path
                known == \/ IsPath(p, "health") \/ IsPath(p, "history")
                         \/ IsPath(p, "stats")
                         \/ (p.name = "history" /\ p.slash)
            IN IF m = "OPTIONS" THEN hresp[h] = RespEmpty
               ELSE IF m = "GET" /\ known THEN hresp[h] # RespEndpointNotFound
               ELSE hresp[h] = RespEndpointNotFound

\* C10 amended: OPTIONS gets 200 with an empty body for any path; for every
\* other method the path alone selects the handler, and 404 'Endpoint not
\* found' is the answer exactly when the path is none of the four.
C10_RoutesByPath ==
    \A h \in Handlers :
        hpc[h] = "send" =>
            LET m == hreq[h].method
                p == hreq[h].path
                r == hresp[h]
            IN IF m = "OPTIONS" THEN r = RespEmpty
               ELSE IF IsPath(p, "health") THEN r = RespHealth
               ELSE IF IsPath(p, "history") THEN r.status = 200 /\ r.kind = "history"
               ELSE IF p.name = "history" /\ p.slash
                    THEN \/ r.status = 200 /\ r.kind = "item"
                         \/ r = RespItemNotFound
                         \/ r = RespInvalidIndex
               ELSE IF IsPath(p, "stats") THEN r.status = 200 /\ r.kind = "stats"
               ELSE r = RespEndpointNotFound

\* C10 witness: POST /health is about to be answered by the health handler.
C10_Witness ==
    \E h \in Handlers :
        /\ hpc[h] = "send"
        /\ hreq[h] = Request("POST", Path("health", FALSE, <<>>))
        /\ hresp[h] = RespHealth

\* The bytes end with CR LF CR LF.
EndsHeader(bytes) ==
    /\ Len(bytes) >= 4
    /\ bytes[Len(bytes) - 3] = "CR" /\ bytes[Len(bytes) - 2] = "LF"
    /\ bytes[Len(bytes) - 1] = "CR" /\ bytes[Len(bytes)] = "LF"

\* The number of spaces before the first CR LF.
RECURSIVE SpacesInFirstLine(_)
SpacesInFirstLine(bytes) ==
    IF bytes = <<>> THEN 0
    ELSE IF Len(bytes) >= 2 /\ bytes[1] = "CR" /\ bytes[2] = "LF" THEN 0
    ELSE (IF bytes[1] = "SP" THEN 1 ELSE 0) + SpacesInFirstLine(Tail(bytes))

\* The bytes read from a stream that ended before CR LF CR LF, or a request
\* whose first line has fewer than two space-delimited tokens.
Malformed(bytes) == ~EndsHeader(bytes) \/ SpacesInFirstLine(bytes) < 1

\* C11: a handler that has read a request whose stream ended before
\* CR LF CR LF, or whose first line has fewer than two parts, reaches the
\* close of the connection having written nothing to the client.
C11_MalformedGetsNoResponse ==
    \A k \in Conns :
        (kpc[k] = "close" /\ Malformed(kdata[k])) => kout[k] = "none"

\* C12: a callback that has built its entry goes on to the append whether or
\* not analyzeRequest / analyzeResponse succeed.
C12_AppendDespiteFailure ==
    [][\A c \in CapThreads :
          (cpc[c] = "analyze" /\ cpc'[c] # "analyze") => cpc'[c] = "append"]_vars

\* C13: once the callbacks have returned, the appends made are as many as the
\* callbacks that were response-side notifications with request and response
\* present: one each, and none for any other callback.
C13_ExactlyOneAppend == CapturesIdle => Len(log) = nCalls

\* A step of the accept loop or of one handler, seen from the others.
C14_Step ==
    /\ (running' /\ spc \in {"check", "accept"}) => spc' \in {"check", "accept"}
    /\ \A k \in Conns :
          (kpc[k] # "failed" /\ kpc'[k] = "failed") =>
              /\ spc' = spc
              /\ \A j \in Conns \ {k} :
                    /\ kpc'[j] = kpc[j]
                    /\ kconn'[j] = kconn[j]
                    /\ kdata'[j] = kdata[j]
                    /\ kout'[j] = kout[j]
    /\ (spc = "accept" /\ spc' = "check" /\ kpc' = kpc) => UNCHANGED connVars

\* C14: an exception in one handler or in one accept call leaves the accept
\* loop in the loop and the other handlers where they were; the loop is left
\* only when the running flag is false.
C14_FailuresIsolated ==
    /\ [](spc = "done" => ~running)
    /\ [][C14_Step]_vars

\* C14 witness: one accept call and one handler have failed, another handler
\* has answered its client, and the loop is waiting for the next connection.
C14_Witness ==
    /\ running
    /\ spc = "accept"
    /\ "Server error" \in stderr
    /\ kpc["k1"] = "failed"
    /\ kpc["k2"] = "done" /\ kout["k2"] = "response"

\* The client of k sends CR LF CR LF or closes its end.
ClientFinishes(k) ==
    \/ ~kstall[k]
    \/ \E i \in 1..Len(kstream[k]) : EndsHeader(SubSeq(kstream[k], 1, i))

\* The handler of k has read nothing beyond the first CR LF CR LF.
NoSecondRequest(k) ==
    \A i \in 1..(Len(kdata[k]) - 1) : ~EndsHeader(SubSeq(kdata[k], 1, i))

\* C15: a connection whose client sends CR LF CR LF or closes its end is
\* eventually closed; a handler that has ended has closed its connection; no
\* handler reads past the end of the first request.
C15_AlwaysClosed ==
    /\ \A k \in Conns :
          (kconn[k] = "open" /\ ClientFinishes(k)) ~> (kconn[k] = "closed")
    /\ [](\A k \in Conns : kpc[k] \in {"done", "failed"} => kconn[k] = "closed")
    /\ [](\A k \in Conns : NoSecondRequest(k))

\* C15 witness: a connection has been closed after an exception and a later
\* one after a malformed request that got no response.
C15_Witness ==
    /\ "Request handler error" \in stderr
    /\ kpc["k1"] = "done" /\ kout["k1"] = "none" /\ kconn["k1"] = "closed"

\* C16: an entry that was in the store when GET /history began and has not
\* been evicted since is in the response.
C16_ReadObservesAppend ==
    \A h \in Handlers :
        Answered(h, "history") =>
            \A s \in snaps[h] : \A e \in Range(s) :
                (\A t \in snaps[h] : e \in Range(t)) => e \in Range(hresp[h].items)

\* A step of the accept loop, seen against the running flag.
C17_Step ==
    /\ (~running /\ spc = "check") => spc' \in {"check", "done"}
    /\ (running /\ ~running') => spc' = spc
    /\ spc = "done" => spc' = "done"

\* C17: once the running flag is false at most one more connection is
\* accepted, the loop's next test of the flag ends it, and clearing the flag
\* does not by itself move the loop out of an outstanding accept.
C17_ShutdownByFlag ==
    /\ [](afterStop <= 1)
    /\ [](spc = "done" => ~running)
    /\ [][C17_Step]_vars

\* C17 witness: the flag was cleared during an accept call, that call returned
\* a connection, and the loop has ended.
C17_Witness == ~running /\ afterStop = 1 /\ spc = "done"

BindFailed == "Failed to start server" \in stderr

\* C18: the failure to bind is in the error log exactly when run() has ended
\* without entering the loop; from then on it stays ended, no connection
\* exists, and the next capture callback can still begin.
C18_BindFailureFatal ==
    /\ [](BindFailed <=> spc = "failed")
    /\ [](BindFailed => \A k \in Conns : kpc[k] = "free" /\ kconn[k] = "none")
    /\ [][BindFailed => spc' = "failed"]_vars
    /\ []((BindFailed /\ nCalls < MaxCalls /\ cpc["c1"] = "idle")
             => ENABLED CaptureBegin("c1"))

\* C18 witness: the listener could not be bound and the store has been filled
\* and evicted from.
C18_Witness ==
    /\ BindFailed
    /\ Len(log) > MaxHistory
    /\ Len(history) = MaxHistory

\* A step seen from the store: it changes only by a callback's append or a
\* callback's pop(0), and not in a step of a request handler.
C19_Step ==
    /\ history' # history =>
          \E c \in CapThreads :
              \/ cpc[c] = "append" /\ history' = Append(history, centry[c])
              \/ cpc[c] = "evict" /\ history' = Tail(history)
    /\ reqVars' # reqVars => history' = history

\* C19: no step of a request handler changes the store; entries are added
\* only by capture callbacks and removed only from the head.
C19_HandlersLeaveStore == [][C19_Step]_vars

\* C19 witness: GET /history/N has read an entry of a store that callbacks
\* have appended to and evicted from.
C19_Witness ==
    /\ \E h \in Handlers : Answered(h, "item")
    /\ Len(log) > Len(history)

\* C20: the index field of every retained entry lies in 0..MaxHistory, also
\* when capture callbacks interleave.
C20_IndexBounded ==
    \A k \in 1..Len(history) : history[k].index \in 0..MaxHistory

====
